---- MODULE Spec2Model ----
(***************************************************************************)
(* The four-stage YouTube data pipeline of data_pipeline.py and the stage  *)
(* functions of functions.py.                                              *)
(*                                                                         *)
(* Strings whose content matters (titles, transcripts, caption texts) are  *)
(* sequences of one-character strings, so that joining and substring       *)
(* replacement are computed character by character.  A polars DataFrame is *)
(* a record [columns, rows]: the sequence of column names and the sequence *)
(* of rows, each row a function from column name to value.  A parquet file *)
(* is a record [exists, df].                                               *)
(***************************************************************************)
EXTENDS Integers, Sequences, FiniteSets, TLC

(* ------------------------------ bounds --------------------------------- *)

\* longest chain of result pages the search API serves
MaxPages == 2
\* width of the embedding model's output (embedding_arr.shape[1])
EmbDim == 2
\* most target sequences / filler pieces in a string given to handleSpecialStrings
MaxTokens == 2
\* most caption fragments in a transcript given to extractTranscriptText
MaxFrags == 2
\* most successive applications of handleSpecialStrings to its own output
MaxCalls == 2

(* ----------------------------- strings --------------------------------- *)

RECURSIVE Join(_, _)
\* sep.join(list) of Python: the elements with sep between consecutive ones
Join(sep, list) ==
    IF list = <<>> THEN <<>>
    ELSE IF Len(list) = 1 THEN list[1]
    ELSE list[1] \o sep \o Join(sep, Tail(list))

\* the positions at which pat occurs in s
Occurrences(s, pat) ==
    {i \in 1..(Len(s) - Len(pat) + 1) : SubSeq(s, i, i + Len(pat) - 1) = pat}

SetMin(S) == CHOOSE m \in S : \A x \in S : m <= x

\* polars Series.str.replace(pattern, value): only the FIRST match of the
\* pattern is replaced (str.replace_all would replace every match).  The
\* three patterns of the program hold no regex metacharacter and the three
\* replacements no "$", so the regex match is a literal substring match.
str_replace(s, pat, rep) ==
    IF Occurrences(s, pat) = {} THEN s
    ELSE LET i == SetMin(Occurrences(s, pat))
         IN  SubSeq(s, 1, i - 1) \o rep \o SubSeq(s, i + Len(pat), Len(s))

special_strings ==
    << <<"&", "#", "3", "9", ";">>, <<"&", "a", "m", "p", ";">>, <<"s", "h", "a", " ">> >>

special_string_replacements ==
    << <<"'">>, <<"&">>, <<"S", "h", "a", "w", " ">> >>

\* the sentinel recorded for a video whose transcript cannot be fetched
NA == <<"n", "/", "a">>

(* ---------------------------- dataframes ------------------------------- *)

HasColumn(df, name) == \E k \in 1..Len(df.columns) : df.columns[k] = name

\* pl.DataFrame(list of dicts): the columns are the keys of the records; an
\* empty list gives a frame with no column and no row
DataFrame(record_list) ==
    [columns |-> IF record_list = <<>> THEN <<>> ELSE <<"video_id", "datetime", "title">>,
     rows    |-> record_list]

RECURSIVE SetColumn(_, _, _)
\* the rows with the value of column `name` set, row by row, in row order
SetColumn(rows, name, values) ==
    IF values = <<>> THEN <<>>
    ELSE IF rows = <<>>
         THEN <<(name :> Head(values))>> \o SetColumn(<<>>, name, Tail(values))
         ELSE <<(name :> Head(values)) @@ Head(rows)>> \o SetColumn(Tail(rows), name, Tail(values))

\* df.with_columns(series.alias(name)): the column is replaced when the frame
\* has it and appended otherwise; the rows keep their order.  (The rows and
\* the values are bound to variables so that TLC evaluates each once.)
with_columns(df, name, values) ==
    [columns |-> IF HasColumn(df, name) THEN df.columns ELSE Append(df.columns, name),
     rows    |-> CHOOSE out \in {SetColumn(r, name, v) : r \in {df.rows}, v \in {values}} : TRUE]

\* df[name].to_list()
Column(df, name) == [k \in 1..Len(df.rows) |-> df.rows[k][name]]

NoFile == [exists |-> FALSE, df |-> DataFrame(<<>>)]

\* df.write_parquet(path): the file is replaced by the frame
write_parquet(df) == [exists |-> TRUE, df |-> df]

(* ------------------------- functions.py: pure -------------------------- *)

RECURSIVE FilterVideos(_)
\* the loop of getVideoRecords over the items of one response
FilterVideos(items) ==
    IF items = <<>> THEN <<>>
    ELSE LET raw_item == Head(items)
         IN  IF raw_item.kind # "youtube#video"
             THEN FilterVideos(Tail(items))
             ELSE << [video_id |-> raw_item.resourceId,
                      datetime |-> [dtype |-> "str", value |-> raw_item.publishedAt],
                      title    |-> raw_item.title] >> \o FilterVideos(Tail(items))

\* getVideoRecords without the kind test of line 21
getVideoRecords_noKindTest(response) ==
    [k \in 1..Len(response.items) |->
        [video_id |-> response.items[k].resourceId,
         datetime |-> [dtype |-> "str", value |-> response.items[k].publishedAt],
         title    |-> response.items[k].title]]

getVideoRecords(response) == FilterVideos(response.items)

\* ''.join(text_list) in place of ' '.join(text_list)
extractTranscriptText_noSeparator(transcript) ==
    Join(<<>>, [i \in 1..Len(transcript) |-> transcript[i].text])

extractTranscriptText(transcript) ==
    LET text_list == [i \in 1..Len(transcript) |-> transcript[i].text]
    IN  Join(<<" ">>, text_list)

\* line 125 or 126: the first match of special string i replaced in one column
ReplaceInColumn(df, name, i) ==
    with_columns(df, name,
        [k \in 1..Len(df.rows) |->
            str_replace(df.rows[k][name], special_strings[i], special_string_replacements[i])])

\* one pass of the loop of handleSpecialStrings: title, then transcript
ReplaceInColumns(df, i) ==
    CHOOSE out \in {ReplaceInColumn(df1, "transcript", i) :
                       df1 \in {ReplaceInColumn(df, "title", i)}} : TRUE

RECURSIVE ReplaceFrom(_, _)
ReplaceFrom(df, i) ==
    IF i > Len(special_strings) THEN df
    ELSE ReplaceFrom(ReplaceInColumns(df, i), i + 1)

\* df['title'] / df['transcript'] raise ColumnNotFoundError on a frame
\* without the column
handleSpecialStringsRaises(df) ==
    ~HasColumn(df, "title") \/ ~HasColumn(df, "transcript")

handleSpecialStrings(df) == ReplaceFrom(df, 1)

\* pl.col('datetime').cast(pl.Datetime): the values are kept, the dtype changes
setDatatypes(df) ==
    with_columns(df, "datetime",
        [k \in 1..Len(df.rows) |-> [dtype |-> "datetime", value |-> df.rows[k]["datetime"].value]])

\* SentenceTransformer.encode(list of strings): one row per string, EmbDim
\* components per row.  The model is a black box: component j of the
\* embedding of s is left uninterpreted as the pair <<s, j>>.
encode(strings) ==
    [k \in 1..Len(strings) |-> [j \in 0..(EmbDim - 1) |-> <<strings[k], j>>]]

\* column_name + '_embedding-' + str(i)
EmbeddingColumn(column_name, i) == column_name \o "_embedding-" \o ToString(i)

RECURSIVE EmbeddingRow(_, _, _)
\* the row of per-dimension columns of one embedding, from dimension j on
EmbeddingRow(column_name, embedding, j) ==
    IF j >= EmbDim THEN <<>>
    ELSE (EmbeddingColumn(column_name, j) :> embedding[j])
         @@ EmbeddingRow(column_name, embedding, j + 1)

\* pl.DataFrame(embedding_arr, schema=schema_dict)
EmbeddingFrame(column_name, embedding_arr) ==
    [columns |-> [n \in 1..EmbDim |-> EmbeddingColumn(column_name, n - 1)],
     rows    |-> [k \in 1..Len(embedding_arr) |-> EmbeddingRow(column_name, embedding_arr[k], 0)]]

RECURSIVE ZipRows(_, _)
ZipRows(a, b) ==
    IF a = <<>> \/ b = <<>> THEN <<>>
    ELSE <<Head(a) @@ Head(b)>> \o ZipRows(Tail(a), Tail(b))

\* pl.concat([a, b], how='horizontal'): the columns side by side, row by row
concat_horizontal(a, b) ==
    [columns |-> a.columns \o b.columns,
     rows    |-> CHOOSE out \in {ZipRows(ra, rb) : ra \in {a.rows}, rb \in {b.rows}} : TRUE]

\* one pass of the loop of createTextEmbeddings
EmbedColumn(df, column_name) ==
    concat_horizontal(df, EmbeddingFrame(column_name, encode(Column(df, column_name))))

column_name_list == <<"title", "transcript">>

RECURSIVE EmbedFrom(_, _)
EmbedFrom(df, n) ==
    IF n > Len(column_name_list) THEN df
    ELSE EmbedFrom(EmbedColumn(df, column_name_list[n]), n + 1)

(* ------------------------- the outside world --------------------------- *)

\* page_token = None, the token of the first request
None == -1

VideoIds == {"v1", "v2"}

\* the title the channel gave each video
TitleOf(id) ==
    IF id = "v1" THEN <<"s", "h", "a", " ", "&", "a", "m", "p", ";">>
    ELSE <<"&", "#", "3", "9", ";", "s">>

VideoItem(id) ==
    [kind |-> "youtube#video", resourceId |-> id,
     publishedAt |-> "2024-01-01T00:00:00Z", title |-> TitleOf(id)]

\* the channel and playlist hits the search API mixes into its results
OtherItem(kind) ==
    [kind |-> kind, resourceId |-> "UCa9", publishedAt |-> "2020-01-01T00:00:00Z",
     title |-> <<"c">>]

\* the result pages the search API may answer with
SearchPages ==
    { <<>>,
      <<VideoItem("v1")>>,
      <<VideoItem("v2"), OtherItem("youtube#channel")>>,
      <<OtherItem("youtube#playlist"), VideoItem("v1"), VideoItem("v2")>> }

\* what YouTubeTranscriptApi.get_transcript may return for a video
ServiceTranscripts ==
    { << [text |-> <<"s", "h", "a">>], [text |-> <<"x">>] >>,
      << [text |-> <<"c">>] >> }

NoResponse == [items |-> <<>>, hasNextPageToken |-> FALSE, nextPageToken |-> 0]

(* ------------------------------ state ---------------------------------- *)

VARIABLES
    pc,                    \* the statement of data_pipeline.py about to run
    stdout,                \* the "Step n: Done" lines printed so far
    requests,              \* the pageToken of every search request sent
    responses,             \* the pages the search API answered with, in order
    transcript_calls,      \* every call of the transcript service and its outcome
    page_token, response, video_record_list,      \* locals of getVideoIDs
    df, i,                 \* the locals df and i (the loop index) of the stage running
    transcript_text_list,  \* local of getVideoTranscripts
    video_ids, video_transcripts, video_index,    \* the three parquet files
    hs_arg, hs_rets,       \* a direct call of handleSpecialStrings and its returns
    et_arg, et_rets        \* a direct call of extractTranscriptText and its returns

files  == <<video_ids, video_transcripts, video_index>>
lister == <<page_token, response, video_record_list>>
fetcher == <<df, i, transcript_text_list>>
calls  == <<hs_arg, hs_rets, et_arg, et_rets>>
network == <<requests, responses, transcript_calls>>
vars   == <<pc, stdout, network, lister, fetcher, files, calls>>

NoFrame == DataFrame(<<>>)

\* the three files become w = <<video-ids, video-transcripts, video-index>>
SetFiles(w) ==
    /\ video_ids' = w[1]
    /\ video_transcripts' = w[2]
    /\ video_index' = w[3]

\* the files an earlier, complete run of the pipeline left in data/
PriorIds == DataFrame(getVideoRecords([items |-> <<VideoItem("v2")>>]))
PriorTranscripts == setDatatypes(handleSpecialStrings(with_columns(PriorIds, "transcript", <<NA>>)))
PriorIndex == EmbedFrom(PriorTranscripts, 1)

Init ==
    /\ pc = "getVideoIDs"
    /\ stdout = <<>>
    /\ requests = <<>>
    /\ responses = <<>>
    /\ transcript_calls = <<>>
    /\ page_token = None
    /\ response = NoResponse
    /\ video_record_list = <<>>
    /\ df = NoFrame
    /\ i = 0
    /\ transcript_text_list = <<>>
    /\ \E prior \in BOOLEAN :
          IF prior
          THEN /\ video_ids = write_parquet(PriorIds)
               /\ video_transcripts = write_parquet(PriorTranscripts)
               /\ video_index = write_parquet(PriorIndex)
          ELSE /\ video_ids = NoFile
               /\ video_transcripts = NoFile
               /\ video_index = NoFile
    /\ hs_arg = NoFrame
    /\ hs_rets = <<>>
    /\ et_arg = <<>>
    /\ et_rets = <<>>

(* ---------------------------- getVideoIDs ------------------------------ *)

\* an except branch that leaves page_token as it was ("pass")
NextPageToken_keep(resp, token) ==
    IF resp.hasNextPageToken THEN resp.nextPageToken ELSE token

\* lines 58-63: the next page token, or 0 when the response has none
NextPageToken(resp, token) ==
    IF resp.hasNextPageToken THEN resp.nextPageToken ELSE 0

\* line 51
LoopContinues(token) == token # 0

\* one pass of the while loop: a request the API answers with a page
ListerRequest ==
    /\ pc = "getVideoIDs"
    /\ LoopContinues(page_token)
    /\ Len(requests) < MaxPages
    /\ \E items \in SearchPages, more \in BOOLEAN :
          /\ more => Len(requests) + 1 < MaxPages
          /\ response' = [items |-> items, hasNextPageToken |-> more,
                          nextPageToken |-> IF more THEN Len(requests) + 2 ELSE 0]
    /\ requests' = Append(requests, page_token)
    /\ responses' = Append(responses, response')
    /\ video_record_list' = video_record_list \o getVideoRecords(response')
    /\ page_token' = NextPageToken(response', page_token)
    /\ UNCHANGED <<pc, stdout, transcript_calls, fetcher, files, calls>>

\* a request the API answers with an error: requests.get raises, or the body
\* has no 'items'; nothing catches it and the process ends
ListerApiError ==
    /\ pc = "getVideoIDs"
    /\ LoopContinues(page_token)
    /\ Len(requests) < MaxPages
    /\ requests' = Append(requests, page_token)
    /\ pc' = "aborted"
    /\ UNCHANGED <<stdout, responses, transcript_calls, lister, fetcher, files, calls>>

\* line 66: what getVideoIDs writes, as <<video_ids, video_transcripts, video_index>>
ListerWrites(record_list) ==
    <<write_parquet(DataFrame(record_list)), video_transcripts, video_index>>

\* the loop is left, the file written, the function returns to the driver
ListerWrite ==
    /\ pc = "getVideoIDs"
    /\ ~LoopContinues(page_token)
    /\ SetFiles(ListerWrites(video_record_list))
    /\ stdout' = Append(stdout, "Step 1: Done")
    /\ pc' = "getVideoTranscripts"
    /\ page_token' = None
    /\ response' = NoResponse
    /\ video_record_list' = <<>>
    /\ UNCHANGED <<network, fetcher, calls>>

(* ------------------------- getVideoTranscripts ------------------------- *)

\* line 90: the video-ids file is read
FetcherRead ==
    /\ pc = "getVideoTranscripts"
    /\ video_ids.exists
    /\ df' = video_ids.df
    /\ i' = 0
    /\ transcript_text_list' = <<>>
    /\ pc' = "getVideoTranscripts_loop"
    /\ UNCHANGED <<stdout, network, lister, files, calls>>

\* an except branch that skips the video instead of recording the sentinel
AfterFailure_skip(text_list) == text_list

\* lines 101-104: the except branch and the append after it
AfterFailure(text_list) == Append(text_list, NA)

\* lines 98-99, 104: the transcript service answers for video i
FetchTranscript ==
    /\ pc = "getVideoTranscripts_loop"
    /\ i < Len(df.rows)
    /\ \E transcript \in ServiceTranscripts :
          /\ transcript_calls' = Append(transcript_calls,
                 [video_id |-> df.rows[i + 1]["video_id"], raised |-> FALSE,
                  transcript |-> transcript])
          /\ transcript_text_list' = Append(transcript_text_list, extractTranscriptText(transcript))
    /\ i' = i + 1
    /\ UNCHANGED <<pc, stdout, requests, responses, lister, df, files, calls>>

\* lines 98, 101-104: the transcript service raises for video i
FetchTranscriptFails ==
    /\ pc = "getVideoTranscripts_loop"
    /\ i < Len(df.rows)
    /\ transcript_calls' = Append(transcript_calls,
           [video_id |-> df.rows[i + 1]["video_id"], raised |-> TRUE, transcript |-> <<>>])
    /\ transcript_text_list' = AfterFailure(transcript_text_list)
    /\ i' = i + 1
    /\ UNCHANGED <<pc, stdout, requests, responses, lister, df, files, calls>>

\* a driver that goes from the fetch straight to the embedding
FetcherWrite_skipTransform ==
    /\ pc = "getVideoTranscripts_loop"
    /\ i = Len(df.rows)
    /\ video_ids' = video_ids
    /\ video_transcripts' = write_parquet(with_columns(df, "transcript", transcript_text_list))
    /\ video_index' = video_index
    /\ stdout' = Append(stdout, "Step 2: Done")
    /\ pc' = "createTextEmbeddings"
    /\ df' = DataFrame(<<>>)
    /\ i' = 0
    /\ transcript_text_list' = <<>>
    /\ UNCHANGED <<network, lister, calls>>

\* lines 107-110: what getVideoTranscripts writes
FetcherWrites(frame, text_list) ==
    <<video_ids, write_parquet(with_columns(frame, "transcript", text_list)), video_index>>

FetcherWrite ==
    /\ pc = "getVideoTranscripts_loop"
    /\ i = Len(df.rows)
    /\ SetFiles(FetcherWrites(df, transcript_text_list))
    /\ stdout' = Append(stdout, "Step 2: Done")
    /\ pc' = "transformData"
    /\ df' = NoFrame
    /\ i' = 0
    /\ transcript_text_list' = <<>>
    /\ UNCHANGED <<network, lister, calls>>

(* ---------------------------- transformData ---------------------------- *)

\* line 153: the transcript file is read
TransformRead ==
    /\ pc = "transformData"
    /\ video_transcripts.exists
    /\ df' = video_transcripts.df
    /\ i' = 0
    /\ pc' = "handleSpecialStrings"
    /\ UNCHANGED <<stdout, network, lister, transcript_text_list, files, calls>>

\* lines 124-126: one pass of the loop of handleSpecialStrings
ReplaceSpecialString ==
    /\ pc = "handleSpecialStrings"
    /\ i < Len(special_strings)
    /\ ~handleSpecialStringsRaises(df)
    /\ df' = ReplaceInColumns(df, i + 1)
    /\ i' = i + 1
    /\ UNCHANGED <<pc, stdout, network, lister, transcript_text_list, files, calls>>

\* lines 125-126 on a frame without a title or transcript column (the frame
\* of a channel without videos): the column lookup raises, nothing catches it
ReplaceFails ==
    /\ pc = "handleSpecialStrings"
    /\ i < Len(special_strings)
    /\ handleSpecialStringsRaises(df)
    /\ pc' = "aborted"
    /\ UNCHANGED <<stdout, network, lister, fetcher, files, calls>>

\* lines 128, 156: handleSpecialStrings returns and setDatatypes casts
SetDatatypes ==
    /\ pc = "handleSpecialStrings"
    /\ i = Len(special_strings)
    /\ df' = setDatatypes(df)
    /\ pc' = "transformData_write"
    /\ UNCHANGED <<stdout, network, lister, i, transcript_text_list, files, calls>>

\* a transformData that saves the frame between the replacements and the cast
CastFails_afterSave ==
    /\ pc = "handleSpecialStrings"
    /\ i = Len(special_strings)
    /\ video_ids' = video_ids
    /\ video_transcripts' = write_parquet(df)
    /\ video_index' = video_index
    /\ pc' = "aborted"
    /\ UNCHANGED <<stdout, network, lister, fetcher, calls>>

\* line 139 on a publish date the cast rejects: it raises, nothing catches it
CastFails ==
    /\ pc = "handleSpecialStrings"
    /\ i = Len(special_strings)
    /\ pc' = "aborted"
    /\ UNCHANGED <<stdout, network, lister, fetcher, files, calls>>

\* line 158: what transformData writes
TransformWrites(frame) ==
    <<video_ids, write_parquet(frame), video_index>>

TransformWrite ==
    /\ pc = "transformData_write"
    /\ SetFiles(TransformWrites(df))
    /\ stdout' = Append(stdout, "Step 3: Done")
    /\ pc' = "createTextEmbeddings"
    /\ df' = NoFrame
    /\ i' = 0
    /\ UNCHANGED <<network, lister, transcript_text_list, calls>>

(* ------------------------ createTextEmbeddings ------------------------- *)

\* lines 166-171: the transformed file is read and the model loaded
EmbedderRead ==
    /\ pc = "createTextEmbeddings"
    /\ video_transcripts.exists
    /\ df' = video_transcripts.df
    /\ i' = 0
    /\ pc' = "createTextEmbeddings_loop"
    /\ UNCHANGED <<stdout, network, lister, transcript_text_list, files, calls>>

\* lines 175-184: one pass of the loop over column_name_list
EmbedNextColumn ==
    /\ pc = "createTextEmbeddings_loop"
    /\ i < Len(column_name_list)
    /\ df' = EmbedColumn(df, column_name_list[i + 1])
    /\ i' = i + 1
    /\ UNCHANGED <<pc, stdout, network, lister, transcript_text_list, files, calls>>

\* loading the model (line 171) or encoding a column (line 177) raises;
\* nothing catches it
EmbeddingFails ==
    /\ \/ pc = "createTextEmbeddings"
       \/ pc = "createTextEmbeddings_loop" /\ i < Len(column_name_list)
    /\ pc' = "aborted"
    /\ UNCHANGED <<stdout, network, lister, fetcher, files, calls>>

\* createTextEmbeddings writing to the path it read from
EmbedderWrites_overTranscripts(frame) ==
    <<video_ids, write_parquet(frame), video_index>>

\* createTextEmbeddings leaving out the videos without a transcript
EmbedderWrites_dropSentinel(frame) ==
    <<video_ids, video_transcripts,
      write_parquet([columns |-> frame.columns,
                     rows |-> SelectSeq(frame.rows, LAMBDA r : r["transcript"] # NA)])>>

\* line 187: what createTextEmbeddings writes
EmbedderWrites(frame) ==
    <<video_ids, video_transcripts, write_parquet(frame)>>

EmbedderWrite ==
    /\ pc = "createTextEmbeddings_loop"
    /\ i = Len(column_name_list)
    /\ SetFiles(EmbedderWrites(df))
    /\ stdout' = Append(stdout, "Step 4: Done")
    /\ pc' = "done"
    /\ df' = NoFrame
    /\ i' = 0
    /\ UNCHANGED <<network, lister, transcript_text_list, calls>>

(* --------------------------- the pipeline ------------------------------ *)

Next ==
    \/ ListerRequest
    \/ ListerApiError
    \/ ListerWrite
    \/ FetcherRead
    \/ FetchTranscript
    \/ FetchTranscriptFails
    \/ FetcherWrite
    \/ TransformRead
    \/ ReplaceSpecialString
    \/ ReplaceFails
    \/ SetDatatypes
    \/ CastFails
    \/ TransformWrite
    \/ EmbedderRead
    \/ EmbedNextColumn
    \/ EmbeddingFails
    \/ EmbedderWrite

Spec == Init /\ [][Next]_vars

\* the interpreter runs the single thread until the script ends or raises:
\* a statement that can run does run
FairSpec ==
    /\ Spec
    /\ WF_vars(ListerRequest)
    /\ WF_vars(ListerWrite)
    /\ WF_vars(FetcherRead)
    /\ WF_vars(FetchTranscript)
    /\ WF_vars(FetcherWrite)
    /\ WF_vars(TransformRead)
    /\ WF_vars(ReplaceSpecialString)
    /\ WF_vars(ReplaceFails)
    /\ WF_vars(SetDatatypes)
    /\ WF_vars(TransformWrite)
    /\ WF_vars(EmbedderRead)
    /\ WF_vars(EmbedNextColumn)
    /\ WF_vars(EmbedderWrite)

(* ---------------- functions.py called on its own ----------------------- *)

\* the pieces the strings given to handleSpecialStrings are made of: the
\* three target sequences, the tail of the first one, and a plain letter
Pieces ==
    {special_strings[n] : n \in 1..Len(special_strings)}
    \cup {<<"#", "3", "9", ";">>, <<"x">>}

RECURSIVE Concatenations(_)
Concatenations(n) ==
    IF n = 0 THEN {<<>>}
    ELSE LET shorter == Concatenations(n - 1)
         IN  shorter \cup {s \o p : s \in shorter, p \in Pieces}

\* a transcript frame of one row
FrameOf(title, transcript) ==
    with_columns(
        DataFrame(<< [video_id |-> "v1",
                      datetime |-> [dtype |-> "str", value |-> "2024-01-01T00:00:00Z"],
                      title    |-> title] >>),
        "transcript", <<transcript>>)

HsFrames ==
    {FrameOf(title, transcript) : title \in Concatenations(MaxTokens),
                                  transcript \in Concatenations(1)}

FragmentTexts == {<<>>, <<" ">>, <<"h", "i">>}

EtTranscripts ==
    UNION {[1..n -> {[text |-> t] : t \in FragmentTexts}] : n \in 0..MaxFrags}

CallInit ==
    /\ pc = "import"
    /\ stdout = <<>>
    /\ requests = <<>>
    /\ responses = <<>>
    /\ transcript_calls = <<>>
    /\ page_token = None
    /\ response = NoResponse
    /\ video_record_list = <<>>
    /\ df = NoFrame
    /\ i = 0
    /\ transcript_text_list = <<>>
    /\ video_ids = NoFile
    /\ video_transcripts = NoFile
    /\ video_index = NoFile
    /\ hs_rets = <<>>
    /\ et_rets = <<>>
    /\ \/ hs_arg \in HsFrames /\ et_arg = <<>>
       \/ hs_arg = NoFrame /\ et_arg \in EtTranscripts

\* handleSpecialStrings applied to the argument, then to its own return
CallHandleSpecialStrings ==
    /\ pc = "import"
    /\ Len(hs_rets) < MaxCalls
    /\ LET frame == IF hs_rets = <<>> THEN hs_arg ELSE hs_rets[Len(hs_rets)]
       IN  /\ ~handleSpecialStringsRaises(frame)
           /\ hs_rets' = Append(hs_rets, handleSpecialStrings(frame))
    /\ UNCHANGED <<pc, stdout, network, lister, fetcher, files, hs_arg, et_arg, et_rets>>

CallExtractTranscriptText ==
    /\ pc = "import"
    /\ et_rets = <<>>
    /\ et_rets' = <<extractTranscriptText(et_arg)>>
    /\ UNCHANGED <<pc, stdout, network, lister, fetcher, files, hs_arg, hs_rets, et_arg>>

CallNext ==
    \/ CallHandleSpecialStrings
    \/ CallExtractTranscriptText

CallSpec == CallInit /\ [][CallNext]_vars

(* ============================== claims ================================= *)

\* the rows of two frames are the same videos in the same order
SameVideos(a, b) ==
    /\ Len(a.rows) = Len(b.rows)
    /\ \A k \in 1..Len(a.rows) : a.rows[k]["video_id"] = b.rows[k]["video_id"]

(* C1: a failure of the transcript service on a video never aborts the     *)
(* batch: the video's transcript is exactly "n/a", every other video is    *)
(* still processed (one service call and one transcript per row, in row    *)
(* order), and the transcript file is written with one transcript per row  *)
(* of the video-ids table.                                                 *)
C1_FailureGivesSentinel ==
    /\ pc = "getVideoTranscripts_loop" =>
          /\ Len(transcript_text_list) = i
          /\ Len(transcript_calls) = i
          /\ \A k \in 1..i :
                /\ transcript_calls[k].video_id = df.rows[k]["video_id"]
                /\ transcript_calls[k].raised => transcript_text_list[k] = NA
    /\ pc = "transformData" =>
          /\ video_transcripts.exists
          /\ SameVideos(video_ids.df, video_transcripts.df)
          /\ Len(transcript_calls) = Len(video_ids.df.rows)
          /\ \A k \in 1..Len(video_transcripts.df.rows) :
                LET row == video_transcripts.df.rows[k]
                    call == transcript_calls[k]
                IN  /\ call.video_id = row["video_id"]
                    /\ "transcript" \in DOMAIN row
                    /\ call.raised => row["transcript"] = NA
                    /\ ~call.raised =>
                          row["transcript"] = extractTranscriptText(call.transcript)
    /\ pc = "aborted" => stdout # <<"Step 1: Done">>

\* the fetcher has written a batch in which one video failed and another,
\* after it, succeeded
C1_Witness ==
    /\ pc = "transformData"
    /\ \E k, l \in 1..Len(transcript_calls) :
          /\ k < l
          /\ transcript_calls[k].raised
          /\ ~transcript_calls[l].raised
          /\ video_transcripts.df.rows[k]["transcript"] = NA
          /\ video_transcripts.df.rows[l]["transcript"] # NA

(* C2: after each stage of a run, and at its end, the derived files have   *)
(* as many rows as video-ids and row k of each is the video of row k of    *)
(* video-ids: video-transcripts after the fetch and after the transform,   *)
(* video-index after the embedding; rows with transcript "n/a" included.   *)
C2_RowsPreserved ==
    /\ pc \in {"transformData", "createTextEmbeddings", "done"} =>
          SameVideos(video_ids.df, video_transcripts.df)
    /\ pc = "done" =>
          /\ SameVideos(video_ids.df, video_index.df)
          /\ SameVideos(video_transcripts.df, video_index.df)

\* a complete run over two different videos, the first without transcript
C2_Witness ==
    /\ pc = "done"
    /\ Len(video_index.df.rows) >= 2
    /\ video_index.df.rows[1]["transcript"] = NA
    /\ video_index.df.rows[1]["video_id"] # video_index.df.rows[2]["video_id"]

RECURSIVE ItemsOf(_)
\* the items of a sequence of responses, page by page
ItemsOf(pages) ==
    IF pages = <<>> THEN <<>> ELSE Head(pages).items \o ItemsOf(Tail(pages))

VideoItemsServed ==
    SelectSeq(ItemsOf(responses), LAMBDA item : item.kind = "youtube#video")

(* C4: the video-ids table getVideoIDs writes holds exactly the items of   *)
(* kind "youtube#video" of all pages served, in the order served, page by  *)
(* page; channel and playlist items are left out.                          *)
C4_OnlyVideosInOrder ==
    pc = "getVideoTranscripts" =>
        /\ video_ids.exists
        /\ Len(video_ids.df.rows) = Len(VideoItemsServed)
        /\ \A k \in 1..Len(VideoItemsServed) :
              /\ video_ids.df.rows[k]["video_id"] = VideoItemsServed[k].resourceId
              /\ video_ids.df.rows[k]["title"] = VideoItemsServed[k].title
              /\ video_ids.df.rows[k]["datetime"].value = VideoItemsServed[k].publishedAt

\* two pages were served, with a playlist hit and a channel hit among the
\* videos, and the table is written
C4_Witness ==
    /\ pc = "getVideoTranscripts"
    /\ Len(responses) = 2
    /\ \E k \in 1..Len(ItemsOf(responses)) : ItemsOf(responses)[k].kind = "youtube#playlist"
    /\ \E k \in 1..Len(ItemsOf(responses)) : ItemsOf(responses)[k].kind = "youtube#channel"
    /\ Len(video_ids.df.rows) >= 3

(* C5: in the video-ids table getVideoIDs writes, no video_id is empty and *)
(* no two rows have the same video_id.                                     *)
C5_UniqueVideoIds ==
    pc = "getVideoTranscripts" =>
        \A k, l \in 1..Len(video_ids.df.rows) :
            /\ video_ids.df.rows[k]["video_id"] # ""
            /\ k # l => video_ids.df.rows[k]["video_id"] # video_ids.df.rows[l]["video_id"]

(* C3: getVideoIDs follows the chain of pages and stops: the first request *)
(* carries no token, every later request carries the token the page before *)
(* it served, no token is requested twice, the loop is left right after a  *)
(* page without nextPageToken and the video-ids file is then written; the  *)
(* function does not stay in its loop for ever.                            *)
C3_PaginationTerminates ==
    /\ [](\A k \in 1..Len(requests) :
             /\ k = 1 => requests[k] = None
             /\ k > 1 => /\ responses[k - 1].hasNextPageToken
                         /\ requests[k] = responses[k - 1].nextPageToken
             /\ \A l \in 1..Len(requests) : k # l => requests[k] # requests[l])
    /\ [][pc = "getVideoIDs" /\ pc' = "getVideoTranscripts" =>
             /\ Len(responses) = Len(requests)
             /\ Len(responses) >= 1
             /\ ~responses[Len(responses)].hasNextPageToken
             /\ video_ids'.exists]_vars
    /\ <>(pc # "getVideoIDs")

\* the longest chain was consumed and the file written
C3_Witness ==
    /\ pc = "getVideoTranscripts"
    /\ Len(requests) = MaxPages
    /\ Len(responses) = MaxPages
    /\ video_ids.exists

\* the stage a statement of the driver belongs to
StageOf(p) ==
    CASE p = "getVideoIDs" -> 1
      [] p \in {"getVideoTranscripts", "getVideoTranscripts_loop"} -> 2
      [] p \in {"transformData", "handleSpecialStrings", "transformData_write"} -> 3
      [] p \in {"createTextEmbeddings", "createTextEmbeddings_loop"} -> 4
      [] OTHER -> 0

(* C7: a stage that raises writes nothing: the step that aborts, and every *)
(* step inside a stage before it, leaves the three files and the output as *)
(* they were when the stage started, and after the abort nothing runs.     *)
C7_AbortKeepsFiles ==
    /\ [][(pc' = "aborted" \/ StageOf(pc') = StageOf(pc)) =>
             /\ video_ids' = video_ids
             /\ video_transcripts' = video_transcripts
             /\ video_index' = video_index
             /\ stdout' = stdout]_vars
    /\ [][pc # "aborted"]_vars

\* the transformer aborted; the transcript file is still the fetcher's
C7_Witness ==
    /\ pc = "aborted"
    /\ stdout = <<"Step 1: Done", "Step 2: Done">>
    /\ video_transcripts.exists
    /\ Len(video_transcripts.df.rows) >= 1
    /\ \A k \in 1..Len(video_transcripts.df.rows) :
          /\ video_transcripts.df.rows[k]["datetime"].dtype = "str"
          /\ video_transcripts.df.rows[k]["transcript"] =
                IF transcript_calls[k].raised THEN NA
                ELSE extractTranscriptText(transcript_calls[k].transcript)

\* the driver's statements in program order, and the aborts an unhandled
\* error makes
StageTransitions ==
    { <<"getVideoIDs", "getVideoTranscripts">>,
      <<"getVideoTranscripts", "getVideoTranscripts_loop">>,
      <<"getVideoTranscripts_loop", "transformData">>,
      <<"transformData", "handleSpecialStrings">>,
      <<"handleSpecialStrings", "transformData_write">>,
      <<"transformData_write", "createTextEmbeddings">>,
      <<"createTextEmbeddings", "createTextEmbeddings_loop">>,
      <<"createTextEmbeddings_loop", "done">>,
      <<"getVideoIDs", "aborted">>,
      <<"handleSpecialStrings", "aborted">>,
      <<"createTextEmbeddings", "aborted">>,
      <<"createTextEmbeddings_loop", "aborted">> }

\* the "Step n: Done" lines printed when the driver is at p
StepsDoneAt(p) ==
    SubSeq(<<"Step 1: Done", "Step 2: Done", "Step 3: Done", "Step 4: Done">>, 1,
           IF p = "done" THEN 4 ELSE StageOf(p) - 1)

(* C8: the four stages run in program order, each at most once: a stage    *)
(* starts only in the step in which its predecessor writes its file and    *)
(* reports "Step n: Done", each stage reads the file as its predecessor    *)
(* left it, and a run in which nothing raises ends with all four done.     *)
C8_StagesInSequence ==
    /\ [][pc' # pc => <<pc, pc'>> \in StageTransitions]_vars
    /\ [](pc # "aborted" => stdout = StepsDoneAt(pc))
    /\ [][StageOf(pc) = 1 /\ StageOf(pc') = 2 =>
             video_ids' = write_parquet(DataFrame(video_record_list))]_vars
    /\ [][pc = "getVideoTranscripts" /\ pc' # pc => df' = video_ids.df]_vars
    /\ [][StageOf(pc) = 2 /\ StageOf(pc') = 3 =>
             video_transcripts' =
                 write_parquet(with_columns(df, "transcript", transcript_text_list))]_vars
    /\ [][pc = "transformData" /\ pc' # pc => df' = video_transcripts.df]_vars
    /\ [][StageOf(pc) = 3 /\ StageOf(pc') = 4 =>
             /\ video_transcripts' = write_parquet(df)
             /\ \A k \in 1..Len(df.rows) : df.rows[k]["datetime"].dtype = "datetime"]_vars
    /\ [][pc = "createTextEmbeddings" /\ pc' = "createTextEmbeddings_loop" =>
             df' = video_transcripts.df]_vars
    /\ [][pc' = "done" /\ pc # "done" => video_index' = write_parquet(df)]_vars
    /\ <>(pc \in {"done", "aborted"})

\* a run that completed all four stages over at least two videos
C8_Witness ==
    /\ pc = "done"
    /\ stdout = <<"Step 1: Done", "Step 2: Done", "Step 3: Done", "Step 4: Done">>
    /\ Len(video_index.df.rows) >= 2

(* C9: every step of the Video Lister leaves video-transcripts and         *)
(* video-index unchanged, every step of the Transcript Fetcher and of the  *)
(* Data Transformer leaves video-ids and video-index unchanged, and every  *)
(* step of the Embedding Generator leaves video-ids and video-transcripts  *)
(* unchanged.                                                              *)
C9_StagesWriteOwnFile ==
    [][/\ StageOf(pc) = 1 => UNCHANGED <<video_transcripts, video_index>>
       /\ StageOf(pc) \in {2, 3} => UNCHANGED <<video_ids, video_index>>
       /\ StageOf(pc) = 4 => UNCHANGED <<video_ids, video_transcripts>>]_vars

\* the embedding stage has written a non-empty index next to the transformed
\* transcripts, which are still without embedding columns
C9_Witness ==
    /\ pc = "done"
    /\ Len(video_index.df.rows) >= 1
    /\ Len(video_index.df.columns) = 4 + 2 * EmbDim
    /\ Len(video_transcripts.df.columns) = 4
    /\ video_ids.df.columns = <<"video_id", "datetime", "title">>

RECURSIVE AfterPasses(_, _)
\* the string after the passes 1..n of the loop of handleSpecialStrings
AfterPasses(s, n) ==
    IF n = 0 THEN s
    ELSE str_replace(AfterPasses(s, n - 1), special_strings[n], special_string_replacements[n])

\* pass n puts its replacement where it completes an occurrence of one of the
\* target sequences: the occurrence overlaps the replacement just made
Reintroduces(s, n) ==
    LET before == AfterPasses(s, n - 1)
        after  == AfterPasses(s, n)
        found  == Occurrences(before, special_strings[n])
    IN  /\ found # {}
        /\ LET first == SetMin(found)
               last  == first + Len(special_string_replacements[n]) - 1
           IN  \E j \in 1..Len(special_strings) :
                   \E q \in Occurrences(after, special_strings[j]) :
                       q <= last /\ q + Len(special_strings[j]) - 1 >= first

NothingReintroduced(s) == \A n \in 1..Len(special_strings) : ~Reintroduces(s, n)

(* C6: handleSpecialStrings is idempotent: applied to its own output it    *)
(* returns that output unchanged, for every title and transcript made of   *)
(* the target sequences in which no replacement reintroduces a target      *)
(* sequence.                                                               *)
C6_Idempotent ==
    (/\ Len(hs_rets) >= 2
     /\ \A k \in 1..Len(hs_arg.rows) :
           /\ NothingReintroduced(hs_arg.rows[k]["title"])
           /\ NothingReintroduced(hs_arg.rows[k]["transcript"]))
    => hs_rets[2] = hs_rets[1]

RECURSIVE OffsetOf(_, _)
\* where fragment k starts in a transcript whose fragments are one space apart
OffsetOf(transcript, k) ==
    IF k = 1 THEN 1
    ELSE OffsetOf(transcript, k - 1) + Len(transcript[k - 1].text) + 1

(* C10: the text extractTranscriptText returns is the fragments' texts in  *)
(* the order given, each consecutive pair exactly one space apart, with    *)
(* nothing before the first and nothing after the last; a single fragment  *)
(* gives its text, no fragment the empty string.                           *)
C10_JoinedBySingleSpaces ==
    et_rets # <<>> =>
        LET text == et_rets[1]
            n    == Len(et_arg)
        IN  /\ n = 0 => text = <<>>
            /\ n = 1 => text = et_arg[1].text
            /\ n >= 1 => Len(text) = OffsetOf(et_arg, n) + Len(et_arg[n].text) - 1
            /\ \A k \in 1..n :
                  /\ SubSeq(text, OffsetOf(et_arg, k),
                            OffsetOf(et_arg, k) + Len(et_arg[k].text) - 1) = et_arg[k].text
                  /\ k > 1 => text[OffsetOf(et_arg, k) - 1] = " "

\* "hi" and "hi" were joined to "hi hi"
C10_Witness ==
    /\ et_arg = << [text |-> <<"h", "i">>], [text |-> <<"h", "i">>] >>
    /\ et_rets = << <<"h", "i", " ", "h", "i">> >>

====
